---- MODULE Spec2Model ----
(***************************************************************************)
(* Model of the grit-cli launcher (packaging/pip/grit_cli/__init__.py):    *)
(* launcher processes that share one cache directory tree.  Each process   *)
(* runs main() or main_daemon(): get_binary_path, on a miss download_binary*)
(* (temporary directory, urlretrieve, extractall, directory lookup, mkdir, *)
(* copy2 + chmod of every binary), then os.execv.                          *)
(*                                                                         *)
(* Fault model: the network may fail, the published archive may be         *)
(* malformed or laid out unexpectedly.  Processes are not killed and local *)
(* filesystem writes do not fail; nothing but the launcher touches the     *)
(* cache tree.                                                             *)
(***************************************************************************)
EXTENDS Naturals, FiniteSets, Sequences, TLC

\* ---------------------------------------------------------------- bounds
MaxRuns == 2      \* launcher invocations in one behaviour (all processes together)

Procs == {1, 2}

\* ------------------------------------------------------- program constants
__version__ == "0.1.0"
OtherVersion == "0.0.9"    \* a release installed by an earlier package version
Versions == {__version__, OtherVersion}

\* variant of Binaries: the daemon is installed first
BinariesReversed == <<"grit-daemon", "grit">>

Binaries == <<"grit", "grit-daemon">>          \* the list of line 131, in order
BinarySet == {Binaries[i] : i \in 1..Len(Binaries)}

\* hosts: platform.system() and platform.machine() as the interpreter reports them
Hosts ==
  { <<"Linux", "x86_64">>, <<"Linux", "riscv64">>, <<"Darwin", "arm64">>,
    <<"Windows", "AMD64">>, <<"FreeBSD", "amd64">> }

\* every value of platform.system() and platform.machine() considered; ""
\* is what the platform module returns when it cannot tell
AllSystems == {"Darwin", "Linux", "Windows", "FreeBSD", "linux", ""}
AllMachines ==
  {"x86_64", "X86_64", "amd64", "AMD64", "aarch64", "arm64", "ARM64", "riscv64",
   "i386", "armv7l", ""}
AllHosts == AllSystems \X AllMachines

VARIABLES
  system,      \* platform.system()
  machine,     \* platform.machine()
  release,     \* the archive published at the release URL
  cacheDir,    \* does <base>/grit-cli exist
  disk,        \* disk[v]: the directory <base>/grit-cli/<v>
  pc,          \* pc[p]: position of process p in the launcher
  entry,       \* entry[p]: binary name requested by p's entry point
  hit,         \* hit[p]: line 84 found the binary (cache hit)
  temp,        \* temp[p]: p's TemporaryDirectory ("none" when it does not exist)
  srcDir,      \* srcDir[p]: index of extracted_dirs[0] in the archive, 0 before line 125
  idx,         \* idx[p]: position of the loop of line 131 in Binaries
  exc,         \* exc[p]: exception raised in this invocation ("none" if none)
  downloads,   \* downloads[p]: urlretrieve calls made by this invocation
  runs,        \* launcher invocations started so far
  live,        \* processes that exist on the machine
  provisioned, \* download_binary calls that returned normally so far
  out,         \* out[p]: status lines printed by this invocation
  argvPool,    \* the command lines users type on this machine
  argv,        \* argv[p]: sys.argv of process p
  binary_path, \* binary_path[p]: the path computed at line 82 ("none" before)
  plat,        \* plat[p]: the triple get_platform returned at line 98 ("none" before)
  execArgs     \* execArgs[p]: the argument list handed to os.execv (<< >> before)

vars == << system, machine, release, cacheDir, disk, pc, entry, hit, temp, srcDir,
           idx, exc, downloads, runs, live, provisioned, out, argvPool, argv,
           binary_path, plat, execArgs >>

host == << system, machine >>
hostVars == << system, machine, release, live, argvPool >>

\* what one invocation computes besides its position
locals == << argv, binary_path, plat, execArgs >>

\* ------------------------------------------------------------- file system
Absent == [exists |-> FALSE, content |-> "none", x |-> FALSE]
Installed == [exists |-> TRUE, content |-> "full", x |-> TRUE]

ExeName(sys, name) == IF sys = "Windows" THEN name \o ".exe" ELSE name

\* line 73-75
get_binary_name(name) == ExeName(system, name)

FileNames == {ExeName(s, b) : s \in {"Linux", "Windows"}, b \in BinarySet}

EmptyDir == [exists |-> FALSE, files |-> [f \in FileNames |-> Absent]]
FullDir(sys) ==
  [exists |-> TRUE,
   files |-> [f \in FileNames |->
                IF f \in {ExeName(sys, b) : b \in BinarySet} THEN Installed ELSE Absent]]

\* line 68-70
get_archive_ext == IF system = "Windows" THEN ".zip" ELSE ".tar.gz"

\* ------------------------------------------------------------ get_platform
\* str.lower() on the machine names a host reports
Lower(s) ==
  CASE s = "AMD64" -> "amd64"
    [] s = "ARM64" -> "arm64"
    [] s = "X86_64" -> "x86_64"
    [] OTHER -> s

system_map ==
  [s \in {"Darwin", "Linux", "Windows"} |->
     CASE s = "Darwin" -> "apple-darwin"
       [] s = "Linux" -> "unknown-linux-gnu"
       [] s = "Windows" -> "pc-windows-msvc"]

\* variant of arch_map: the "amd64" row is missing
arch_map_NoAmd64 ==
  [m \in {"x86_64", "aarch64", "arm64"} |->
     CASE m = "x86_64" -> "x86_64"
       [] m = "aarch64" -> "aarch64"
       [] m = "arm64" -> "aarch64"]

arch_map ==
  [m \in {"x86_64", "amd64", "aarch64", "arm64"} |->
     CASE m = "x86_64" -> "x86_64"
       [] m = "amd64" -> "x86_64"
       [] m = "aarch64" -> "aarch64"
       [] m = "arm64" -> "aarch64"]

\* dict.get: None for a missing key
DictGet(d, k) == IF k \in DOMAIN d THEN d[k] ELSE "None"

Unsupported(sys, mach) ==
  \/ DictGet(system_map, sys) = "None"
  \/ DictGet(arch_map, Lower(mach)) = "None"

\* variant of get_platform: no special case for macOS
get_platform_NoUniversal(sys, mach) ==
  IF Unsupported(sys, mach) THEN "RuntimeError"
  ELSE DictGet(arch_map, Lower(mach)) \o "-" \o DictGet(system_map, sys)

\* line 37-65; "RuntimeError" stands for the raise of line 59
get_platform(sys, mach) ==
  IF Unsupported(sys, mach) THEN "RuntimeError"
  ELSE IF sys = "Darwin" THEN "universal-apple-darwin"
  ELSE DictGet(arch_map, Lower(mach)) \o "-" \o DictGet(system_map, sys)

\* ----------------------------------------------------------------- archive
\* A release: is the archive readable, the mode bits its members carry, and
\* for each top-level "grit-*" directory the binaries it holds.
DirContents(sys) == SUBSET {ExeName(sys, b) : b \in BinarySet}

\* how many top-level "grit-*" directories an archive holds: none, one, several
DirCounts == {0, 1, 2}

Malformed == [wellformed |-> FALSE, xbit |-> FALSE, dirs |-> << >>]

Releases(sys) ==
  { [wellformed |-> TRUE, xbit |-> xb, dirs |-> d] :
      xb \in BOOLEAN,
      d \in UNION { [1..n -> DirContents(sys)] : n \in DirCounts } }
  \cup {Malformed}

\* line 121: the directories of temp_path whose name starts with "grit-"
extracted_dirs(rel) == DOMAIN rel.dirs

\* ------------------------------------------------------------------- paths
\* variant of version_dir: the directory of a stale version number is used
version_dir_Stale == OtherVersion

\* line 81: version_dir = cache_dir / __version__
version_dir == __version__

\* line 25-32: the base cache directory, with the environment held fixed
CacheDirPath(sys) ==
  CASE sys = "Windows" -> "%LOCALAPPDATA%/grit-cli"
    [] sys = "Darwin" -> "~/Library/Caches/grit-cli"
    [] OTHER -> "$XDG_CACHE_HOME/grit-cli"

\* line 80-82: binary_path = cache_dir / __version__ / get_binary_name(name)
BinaryPath(name) ==
  CacheDirPath(system) \o "/" \o version_dir \o "/" \o get_binary_name(name)

\* line 82: the file at binary_path
BinaryFile(name) == disk[version_dir].files[get_binary_name(name)]

\* variant of Exists: a file counts only once it is complete and executable
ExistsComplete(file) == file.exists /\ file.content = "full" /\ file.x

\* Path.exists()
Exists(file) == file.exists

\* ------------------------------------------------------------------- Init
InitDisks ==
  { [cd |-> FALSE, vd |-> EmptyDir], [cd |-> TRUE, vd |-> EmptyDir],
    [cd |-> TRUE, vd |-> FullDir(system)] }

\* sys.argv: the program name and the arguments after it
Argvs ==
  { << "grit" >>, << "grit", "status" >>, << "grit-daemon", "--verbose", "start" >>,
    << "grit", "status", "status" >> }

InitWith(processes, hosts, argvs) ==
  /\ \E h \in hosts : system = h[1] /\ machine = h[2]
  /\ argvPool = argvs
  /\ argv = [p \in Procs |-> << >>]
  /\ binary_path = [p \in Procs |-> "none"]
  /\ plat = [p \in Procs |-> "none"]
  /\ execArgs = [p \in Procs |-> << >>]
  /\ release \in Releases(system)
  /\ \E d \in InitDisks :
       /\ cacheDir = d.cd
       /\ disk = [v \in Versions |->
                    IF v = __version__ THEN d.vd
                    ELSE IF d.cd THEN FullDir(system) ELSE EmptyDir]
  /\ pc = [p \in Procs |-> "idle"]
  /\ entry = [p \in Procs |-> "grit"]
  /\ hit = [p \in Procs |-> FALSE]
  /\ temp = [p \in Procs |-> "none"]
  /\ srcDir = [p \in Procs |-> 0]
  /\ idx = [p \in Procs |-> 0]
  /\ exc = [p \in Procs |-> "none"]
  /\ downloads = [p \in Procs |-> 0]
  /\ out = [p \in Procs |-> << >>]
  /\ runs = 0
  /\ provisioned = 0
  /\ live = processes

Init == InitWith(Procs, Hosts, {<< "grit", "status" >>})
Init1 == InitWith({1}, Hosts, Argvs)

\* ---------------------------------------------------------------- actions
Goto(p, label) == pc' = [pc EXCEPT ![p] = label]

\* a launcher process starts: the interpreter calls an entry point.  A new
\* process takes the lowest free process slot.
Invoke(p, name) ==
  /\ p \in live
  /\ pc[p] = "idle"
  /\ \A q \in live : q < p => pc[q] # "idle"
  /\ runs < MaxRuns
  /\ runs' = runs + 1
  /\ Goto(p, "get_cache_dir")
  /\ entry' = [entry EXCEPT ![p] = name]
  /\ hit' = [hit EXCEPT ![p] = FALSE]
  /\ srcDir' = [srcDir EXCEPT ![p] = 0]
  /\ idx' = [idx EXCEPT ![p] = 0]
  /\ exc' = [exc EXCEPT ![p] = "none"]
  /\ downloads' = [downloads EXCEPT ![p] = 0]
  /\ out' = [out EXCEPT ![p] = << >>]
  /\ \E a \in argvPool : argv' = [argv EXCEPT ![p] = a]
  /\ UNCHANGED << hostVars, binary_path, plat, execArgs, cacheDir, disk, temp,
                  provisioned >>

\* line 143-146
main(p) == Invoke(p, "grit")

\* line 149-152
main_daemon(p) == Invoke(p, "grit-daemon")

\* variant of get_cache_dir: the versioned directory is created along with the
\* base directory
get_cache_dir_MkVersion(p) ==
  /\ pc[p] = "get_cache_dir"
  /\ cacheDir' = TRUE
  /\ disk' = [disk EXCEPT ![version_dir].exists = TRUE]
  /\ binary_path' = [binary_path EXCEPT ![p] = BinaryPath(entry[p])]
  /\ Goto(p, "exists")
  /\ UNCHANGED << hostVars, argv, plat, execArgs, entry, hit, temp, srcDir, idx, exc,
                  downloads, runs, provisioned, out >>

\* line 23-34, called at line 80: mkdir(parents=True, exist_ok=True);
\* line 81-82: version_dir and binary_path are computed
get_cache_dir(p) ==
  /\ pc[p] = "get_cache_dir"
  /\ cacheDir' = TRUE
  /\ binary_path' = [binary_path EXCEPT ![p] = BinaryPath(entry[p])]
  /\ Goto(p, "exists")
  /\ UNCHANGED << hostVars, argv, plat, execArgs, disk, entry, hit, temp, srcDir, idx, exc, downloads,
                  runs, provisioned, out >>

\* variant of CacheHit: the binary is found and the download runs all the same
CacheHitRedownload(p) ==
  /\ pc[p] = "exists"
  /\ Exists(BinaryFile(entry[p]))
  /\ hit' = [hit EXCEPT ![p] = TRUE]
  /\ Goto(p, "get_platform")
  /\ UNCHANGED << hostVars, locals, cacheDir, disk, entry, temp, srcDir, idx, exc,
                  downloads, runs, provisioned, out >>

\* variant of CacheHit: the hit is decided on the primary binary alone
CacheHitPrimaryOnly(p) ==
  /\ pc[p] = "exists"
  /\ Exists(BinaryFile(Binaries[1]))
  /\ hit' = [hit EXCEPT ![p] = TRUE]
  /\ Goto(p, "execv")
  /\ UNCHANGED << hostVars, locals, cacheDir, disk, entry, temp, srcDir, idx, exc,
                  downloads, runs, provisioned, out >>

\* line 84-85: binary_path.exists() is true, return binary_path
CacheHit(p) ==
  /\ pc[p] = "exists"
  /\ Exists(BinaryFile(entry[p]))
  /\ hit' = [hit EXCEPT ![p] = TRUE]
  /\ Goto(p, "execv")
  /\ UNCHANGED << hostVars, locals, cacheDir, disk, entry, temp, srcDir, idx, exc,
                  downloads, runs, provisioned, out >>

\* variant of CacheMiss: provisioning waits for an exclusive lock on the
\* versioned directory, held from the miss to the end of download_binary
CacheMissLocked(p) ==
  /\ pc[p] = "exists"
  /\ ~Exists(BinaryFile(entry[p]))
  /\ \A q \in Procs \ {p} :
       pc[q] \in {"idle", "get_cache_dir", "exists", "recheck", "execv", "execd", "error"}
  /\ Goto(p, "get_platform")
  /\ UNCHANGED << hostVars, locals, cacheDir, disk, entry, hit, temp, srcDir, idx, exc,
                  downloads, runs, provisioned, out >>

\* line 84, 88: binary_path.exists() is false, call download_binary(version_dir)
CacheMiss(p) ==
  /\ pc[p] = "exists"
  /\ ~Exists(BinaryFile(entry[p]))
  /\ Goto(p, "get_platform")
  /\ UNCHANGED << hostVars, locals, cacheDir, disk, entry, hit, temp, srcDir, idx, exc,
                  downloads, runs, provisioned, out >>

\* line 98-103: the platform is known; print "Downloading ..."
PlatformOk(p) ==
  /\ pc[p] = "get_platform"
  /\ get_platform(system, machine) # "RuntimeError"
  /\ plat' = [plat EXCEPT ![p] = get_platform(system, machine)]
  /\ out' = [out EXCEPT ![p] = Append(@, "Downloading")]
  /\ Goto(p, "mkdtemp")
  /\ UNCHANGED << hostVars, argv, binary_path, execArgs, cacheDir, disk, entry, hit, temp, srcDir, idx, exc,
                  downloads, runs, provisioned >>

\* variant of PlatformUnsupported: get_platform is called inside the with block
PlatformUnsupportedLate(p) ==
  /\ pc[p] = "get_platform"
  /\ get_platform(system, machine) = "RuntimeError"
  /\ temp' = [temp EXCEPT ![p] = "empty"]
  /\ exc' = [exc EXCEPT ![p] = "UnsupportedPlatform"]
  /\ Goto(p, "cleanup")
  /\ UNCHANGED << hostVars, locals, cacheDir, disk, entry, hit, srcDir, idx,
                  downloads, runs, provisioned, out >>

\* line 98, 59: get_platform raises; nothing encloses the call
PlatformUnsupported(p) ==
  /\ pc[p] = "get_platform"
  /\ get_platform(system, machine) = "RuntimeError"
  /\ exc' = [exc EXCEPT ![p] = "UnsupportedPlatform"]
  /\ Goto(p, "error")
  /\ UNCHANGED << hostVars, locals, cacheDir, disk, entry, hit, temp, srcDir, idx,
                  downloads, runs, provisioned, out >>

\* variant of MkTemp: the destination directory is created before the download
MkTempAndDest(p) ==
  /\ pc[p] = "mkdtemp"
  /\ temp' = [temp EXCEPT ![p] = "empty"]
  /\ disk' = [disk EXCEPT ![version_dir].exists = TRUE]
  /\ Goto(p, "urlretrieve")
  /\ UNCHANGED << hostVars, locals, cacheDir, entry, hit, srcDir, idx, exc, downloads,
                  runs, provisioned, out >>

\* line 105: with tempfile.TemporaryDirectory() as temp_dir
MkTemp(p) ==
  /\ pc[p] = "mkdtemp"
  /\ temp' = [temp EXCEPT ![p] = "empty"]
  /\ Goto(p, "urlretrieve")
  /\ UNCHANGED << hostVars, locals, cacheDir, disk, entry, hit, srcDir, idx, exc,
                  downloads, runs, provisioned, out >>

\* line 110: the archive arrives in the temporary directory
DownloadOk(p) ==
  /\ pc[p] = "urlretrieve"
  /\ downloads' = [downloads EXCEPT ![p] = @ + 1]
  /\ temp' = [temp EXCEPT ![p] = "archive"]
  /\ Goto(p, "extractall")
  /\ UNCHANGED << hostVars, locals, cacheDir, disk, entry, hit, srcDir, idx, exc,
                  runs, provisioned, out >>

\* variant of DownloadFail: the failed download is tried again
DownloadFailRetry(p) ==
  /\ pc[p] = "urlretrieve"
  /\ downloads' = [downloads EXCEPT ![p] = @ + 1]
  /\ temp' = [temp EXCEPT ![p] = "partial"]
  /\ exc' = [exc EXCEPT ![p] = "DownloadError"]
  /\ Goto(p, "urlretrieve")
  /\ UNCHANGED << hostVars, locals, cacheDir, disk, entry, hit, srcDir, idx, runs,
                  provisioned, out >>

\* line 110: urlretrieve raises (transport or HTTP failure)
DownloadFail(p) ==
  /\ pc[p] = "urlretrieve"
  /\ downloads' = [downloads EXCEPT ![p] = @ + 1]
  /\ temp' = [temp EXCEPT ![p] = "partial"]
  /\ exc' = [exc EXCEPT ![p] = "DownloadError"]
  /\ Goto(p, "cleanup")
  /\ UNCHANGED << hostVars, locals, cacheDir, disk, entry, hit, srcDir, idx, runs,
                  provisioned, out >>

\* line 113-118: extractall into the temporary directory
ExtractOk(p) ==
  /\ pc[p] = "extractall"
  /\ release.wellformed
  /\ temp' = [temp EXCEPT ![p] = "extracted"]
  /\ Goto(p, "iterdir")
  /\ UNCHANGED << hostVars, locals, cacheDir, disk, entry, hit, srcDir, idx, exc,
                  downloads, runs, provisioned, out >>

\* line 113-118: tarfile / zipfile raises on a malformed archive
ExtractFail(p) ==
  /\ pc[p] = "extractall"
  /\ ~release.wellformed
  /\ temp' = [temp EXCEPT ![p] = "partial"]
  /\ exc' = [exc EXCEPT ![p] = "ExtractionError"]
  /\ Goto(p, "cleanup")
  /\ UNCHANGED << hostVars, locals, cacheDir, disk, entry, hit, srcDir, idx, downloads,
                  runs, provisioned, out >>

\* line 121-125: src_dir = extracted_dirs[0]; iterdir() yields in arbitrary order
FindDir(p) ==
  /\ pc[p] = "iterdir"
  /\ extracted_dirs(release) # {}
  /\ \E d \in extracted_dirs(release) : srcDir' = [srcDir EXCEPT ![p] = d]
  /\ Goto(p, "mkdir")
  /\ UNCHANGED << hostVars, locals, cacheDir, disk, entry, hit, temp, idx, exc,
                  downloads, runs, provisioned, out >>

\* line 122-123: raise RuntimeError("Could not find extracted directory")
NoDir(p) ==
  /\ pc[p] = "iterdir"
  /\ extracted_dirs(release) = {}
  /\ exc' = [exc EXCEPT ![p] = "ExtractionError"]
  /\ Goto(p, "cleanup")
  /\ UNCHANGED << hostVars, locals, cacheDir, disk, entry, hit, temp, srcDir, idx,
                  downloads, runs, provisioned, out >>

\* line 128: dest_dir.mkdir(parents=True, exist_ok=True)
MkDestDir(p) ==
  /\ pc[p] = "mkdir"
  /\ cacheDir' = TRUE
  /\ disk' = [disk EXCEPT ![version_dir].exists = TRUE]
  /\ idx' = [idx EXCEPT ![p] = 1]
  /\ Goto(p, "copyfile_open")
  /\ UNCHANGED << hostVars, locals, entry, hit, temp, srcDir, exc, downloads, runs,
                  provisioned, out >>

\* line 132-133: the name copied in this round of the loop
CurrentBinary(p) == get_binary_name(Binaries[idx[p]])

\* line 132: does src exist in the extracted directory
SrcPresent(p) == CurrentBinary(p) \in release.dirs[srcDir[p]]

\* open(dst, "wb"): creates the file or truncates it, its mode bits are kept
Truncated(file) ==
  [exists |-> TRUE, content |-> "partial", x |-> IF file.exists THEN file.x ELSE FALSE]

WriteFile(name, file) == disk' = [disk EXCEPT ![version_dir].files[name] = file]

\* variant of CopyOpen: a binary that is already at the destination is kept
CopyOpenSkipExisting(p) ==
  /\ pc[p] = "copyfile_open"
  /\ SrcPresent(p)
  /\ IF disk[version_dir].files[CurrentBinary(p)].exists
     THEN /\ disk' = disk
          /\ IF idx[p] < Len(Binaries)
             THEN idx' = [idx EXCEPT ![p] = @ + 1] /\ Goto(p, "copyfile_open")
             ELSE idx' = idx /\ Goto(p, "cleanup")
     ELSE /\ WriteFile(CurrentBinary(p), Truncated(disk[version_dir].files[CurrentBinary(p)]))
          /\ Goto(p, "copyfile_write")
          /\ idx' = idx
  /\ UNCHANGED << hostVars, locals, cacheDir, entry, hit, temp, srcDir, exc,
                  downloads, runs, provisioned, out >>

\* line 134, shutil.copy2 / copyfile: open src, open dst for writing
CopyOpen(p) ==
  /\ pc[p] = "copyfile_open"
  /\ SrcPresent(p)
  /\ WriteFile(CurrentBinary(p), Truncated(disk[version_dir].files[CurrentBinary(p)]))
  /\ Goto(p, "copyfile_write")
  /\ UNCHANGED << hostVars, locals, cacheDir, entry, hit, temp, srcDir, idx, exc,
                  downloads, runs, provisioned, out >>

\* variant of CopyMissing: a failed copy removes what this run installed
CopyMissingRollback(p) ==
  /\ pc[p] = "copyfile_open"
  /\ ~SrcPresent(p)
  /\ exc' = [exc EXCEPT ![p] = "CopyError"]
  /\ disk' = [disk EXCEPT ![version_dir].files = [f \in FileNames |-> Absent]]
  /\ Goto(p, "cleanup")
  /\ UNCHANGED << hostVars, locals, cacheDir, entry, hit, temp, srcDir, idx,
                  downloads, runs, provisioned, out >>

\* line 134: open(src) raises FileNotFoundError, dst is not opened
CopyMissing(p) ==
  /\ pc[p] = "copyfile_open"
  /\ ~SrcPresent(p)
  /\ exc' = [exc EXCEPT ![p] = "CopyError"]
  /\ Goto(p, "cleanup")
  /\ UNCHANGED << hostVars, locals, cacheDir, disk, entry, hit, temp, srcDir, idx,
                  downloads, runs, provisioned, out >>

\* line 134, copyfile: the bytes of src are written to dst and dst is closed
CopyWrite(p) ==
  /\ pc[p] = "copyfile_write"
  /\ WriteFile(CurrentBinary(p),
               [disk[version_dir].files[CurrentBinary(p)] EXCEPT !.content = "full"])
  /\ Goto(p, "copystat")
  /\ UNCHANGED << hostVars, locals, cacheDir, entry, hit, temp, srcDir, idx, exc,
                  downloads, runs, provisioned, out >>

\* variant of AfterBinary: the loop ends after the first binary
AfterBinaryFirstOnly(p) ==
  /\ idx' = idx
  /\ Goto(p, "cleanup")

\* line 131, 139: next round of the loop, or leave the with block
AfterBinary(p) ==
  IF idx[p] < Len(Binaries)
  THEN /\ idx' = [idx EXCEPT ![p] = @ + 1]
       /\ Goto(p, "copyfile_open")
  ELSE /\ idx' = idx
       /\ Goto(p, "cleanup")

\* line 134, copy2 / copystat: dst takes the mode bits of src;
\* line 137: on Windows the round ends here
CopyStat(p) ==
  /\ pc[p] = "copystat"
  /\ WriteFile(CurrentBinary(p),
               [disk[version_dir].files[CurrentBinary(p)] EXCEPT !.x = release.xbit])
  /\ IF system # "Windows"
     THEN Goto(p, "chmod") /\ idx' = idx
     ELSE AfterBinary(p)
  /\ UNCHANGED << hostVars, locals, cacheDir, entry, hit, temp, srcDir, exc, downloads,
                  runs, provisioned, out >>

\* variant of Chmod: the mode bits copied from the archive are trusted
ChmodSkipped(p) ==
  /\ pc[p] = "chmod"
  /\ disk' = disk
  /\ AfterBinary(p)
  /\ UNCHANGED << hostVars, locals, cacheDir, entry, hit, temp, srcDir, exc, downloads,
                  runs, provisioned, out >>

\* line 138: dst.chmod(mode | S_IXUSR | S_IXGRP | S_IXOTH)
Chmod(p) ==
  /\ pc[p] = "chmod"
  /\ WriteFile(CurrentBinary(p),
               [disk[version_dir].files[CurrentBinary(p)] EXCEPT !.x = TRUE])
  /\ AfterBinary(p)
  /\ UNCHANGED << hostVars, locals, cacheDir, entry, hit, temp, srcDir, exc, downloads,
                  runs, provisioned, out >>

\* variant of Cleanup: the directory is removed at the end of the block only,
\* an exception leaves it behind
CleanupOnSuccessOnly(p) ==
  /\ pc[p] = "cleanup"
  /\ IF exc[p] = "none"
     THEN /\ temp' = [temp EXCEPT ![p] = "none"]
          /\ out' = [out EXCEPT ![p] = Append(@, "Successfully installed")]
          /\ provisioned' = provisioned + 1
          /\ Goto(p, "recheck")
     ELSE /\ UNCHANGED << temp, out, provisioned >>
          /\ Goto(p, "error")
  /\ UNCHANGED << hostVars, locals, cacheDir, disk, entry, hit, srcDir, idx, exc,
                  downloads, runs >>

\* line 105, 139-140: TemporaryDirectory.__exit__ removes the directory, then
\* the exception propagates or "Successfully installed" is printed
Cleanup(p) ==
  /\ pc[p] = "cleanup"
  /\ temp' = [temp EXCEPT ![p] = "none"]
  /\ IF exc[p] = "none"
     THEN /\ out' = [out EXCEPT ![p] = Append(@, "Successfully installed")]
          /\ provisioned' = provisioned + 1
          /\ Goto(p, "recheck")
     ELSE /\ UNCHANGED << out, provisioned >>
          /\ Goto(p, "error")
  /\ UNCHANGED << hostVars, locals, cacheDir, disk, entry, hit, srcDir, idx, exc,
                  downloads, runs >>

\* variant of Recheck: the path is returned without the second check
RecheckSkipped(p) ==
  /\ pc[p] = "recheck"
  /\ Goto(p, "execv")
  /\ UNCHANGED << hostVars, locals, cacheDir, disk, entry, hit, temp, srcDir, idx,
                  exc, downloads, runs, provisioned, out >>

\* line 90-93: the check after download_binary
Recheck(p) ==
  /\ pc[p] = "recheck"
  /\ IF Exists(BinaryFile(entry[p]))
     THEN Goto(p, "execv") /\ exc' = exc
     ELSE Goto(p, "error") /\ exc' = [exc EXCEPT ![p] = "ProvisionError"]
  /\ UNCHANGED << hostVars, locals, cacheDir, disk, entry, hit, temp, srcDir, idx,
                  downloads, runs, provisioned, out >>

\* what os.execv(path) can do with the file it is given
ExecOutcomes(file) ==
  IF ~file.exists THEN {"FileNotFoundError"}
  ELSE IF file.content # "full" THEN {"OSError", "execd"}
  ELSE IF system # "Windows" /\ ~file.x THEN {"PermissionError"}
  ELSE {"execd"}

\* variant of ExecArgv: sys.argv is passed on whole, program name included
ExecArgvWhole(p) == << binary_path[p] >> \o argv[p]

\* line 146 / 152: [str(binary)] + sys.argv[1:]
ExecArgv(p) == << binary_path[p] >> \o SubSeq(argv[p], 2, Len(argv[p]))

\* line 146 / 152: os.execv(str(binary), ...)
Execv(p) ==
  /\ pc[p] = "execv"
  /\ execArgs' = [execArgs EXCEPT ![p] = ExecArgv(p)]
  /\ \E o \in ExecOutcomes(BinaryFile(entry[p])) :
       IF o = "execd"
       THEN Goto(p, "execd") /\ exc' = exc
       ELSE Goto(p, "error") /\ exc' = [exc EXCEPT ![p] = o]
  /\ UNCHANGED << hostVars, argv, binary_path, plat, cacheDir, disk, entry, hit, temp, srcDir, idx,
                  downloads, runs, provisioned, out >>

\* the process is gone: the exec'd binary has replaced it, or the exception
\* has left main() and ended the interpreter
Exit(p) ==
  /\ pc[p] \in {"execd", "error"}
  /\ Goto(p, "idle")
  /\ entry' = [entry EXCEPT ![p] = "grit"]
  /\ hit' = [hit EXCEPT ![p] = FALSE]
  /\ srcDir' = [srcDir EXCEPT ![p] = 0]
  /\ idx' = [idx EXCEPT ![p] = 0]
  /\ exc' = [exc EXCEPT ![p] = "none"]
  /\ downloads' = [downloads EXCEPT ![p] = 0]
  /\ out' = [out EXCEPT ![p] = << >>]
  /\ argv' = [argv EXCEPT ![p] = << >>]
  /\ binary_path' = [binary_path EXCEPT ![p] = "none"]
  /\ plat' = [plat EXCEPT ![p] = "none"]
  /\ execArgs' = [execArgs EXCEPT ![p] = << >>]
  /\ UNCHANGED << hostVars, cacheDir, disk, temp, runs, provisioned >>

Next ==
  \E p \in Procs :
    \/ main(p) \/ main_daemon(p) \/ get_cache_dir(p)
    \/ CacheHit(p) \/ CacheMiss(p)
    \/ PlatformOk(p) \/ PlatformUnsupported(p)
    \/ MkTemp(p) \/ DownloadOk(p) \/ DownloadFail(p)
    \/ ExtractOk(p) \/ ExtractFail(p)
    \/ FindDir(p) \/ NoDir(p)
    \/ MkDestDir(p) \/ CopyOpen(p) \/ CopyMissing(p) \/ CopyWrite(p)
    \/ CopyStat(p) \/ Chmod(p)
    \/ Cleanup(p) \/ Recheck(p) \/ Execv(p) \/ Exit(p)

\* launcher processes of one machine, running concurrently
Spec == Init /\ [][Next]_vars

\* a single launcher process, invoked again after it ends
Spec1 == Init1 /\ [][Next]_vars

\* line 84, 90: what binary_path.exists() sees is the file system of the
\* machine: another program (the user emptying the cache) may remove a file of
\* the versioned directory at any moment
RemoveFile(name) ==
  /\ disk[version_dir].files[name].exists
  /\ disk' = [disk EXCEPT ![version_dir].files[name] = Absent]
  /\ UNCHANGED << hostVars, locals, cacheDir, pc, entry, hit, temp, srcDir, idx,
                  exc, downloads, runs, provisioned, out >>

InitEnv == InitWith({1}, Hosts, {<< "grit", "status" >>})

NextEnv ==
  \/ Next
  \/ \E b \in BinarySet : RemoveFile(get_binary_name(b))

InitPlatform == InitWith({1}, AllHosts, {<< "grit", "status" >>})

\* a single launcher process on every host the platform module can report
SpecPlatform == InitPlatform /\ [][Next]_vars

\* a single launcher process on a machine where cached files may disappear
SpecEnv == InitEnv /\ [][NextEnv]_vars

\* ================================================================== claims
\* a binary as a finished install leaves it: all bytes written, and on
\* non-Windows platforms the execute bits set
FullyInstalled(name) ==
  LET f == BinaryFile(name)
  IN  f.exists /\ f.content = "full" /\ (system # "Windows" => f.x)

BothBinaries == {get_binary_name(b) : b \in BinarySet}

\* p is between the creation and the removal of its temporary directory
InsideWith(p) ==
  pc[p] \in {"urlretrieve", "extractall", "iterdir", "mkdir", "copyfile_open",
             "copyfile_write", "copystat", "chmod", "cleanup"}

\* C1: with a single launcher process, whenever download_binary has returned
\* normally (and get_binary_path after it), both "grit" and "grit-daemon" are
\* present at the versioned path, completely written, and carry the execute
\* bits on non-Windows platforms.
C1_ProvisionInstallsBoth ==
  \A p \in Procs :
    (pc[p] \in {"recheck", "execv"} /\ ~hit[p]) =>
      \A b \in BinarySet : FullyInstalled(b)

\* C1 witness: first invocation on an empty cache, the archive holds exactly one
\* "grit-*" directory with both binaries (without execute bits), and
\* download_binary has just returned on a POSIX host.
C1_Witness ==
  /\ pc[1] = "recheck"
  /\ runs = 1
  /\ system = "Linux"
  /\ DOMAIN release.dirs = {1}
  /\ release.dirs[1] = BothBinaries
  /\ ~release.xbit
  /\ \A b \in BinarySet : FullyInstalled(b)

\* C2: a process whose existence check finds the requested binary goes
\* straight to exec: no download is started, no temporary directory is made,
\* nothing under the versioned directory is written by it; and once one
\* provisioning has succeeded every binary exists, so every later call is
\* such a hit.
C2_CacheHitNoDownload ==
  [][ /\ \A p \in Procs :
           (pc[p] = "exists" /\ pc'[p] # pc[p] /\ BinaryFile(entry[p]).exists) =>
             /\ pc'[p] = "execv"
             /\ hit'[p]
             /\ disk' = disk
      /\ \A p \in Procs :
           hit'[p] =>
             /\ downloads'[p] = 0
             /\ temp'[p] = "none"
             /\ pc'[p] \in {"execv", "execd", "error"}
             /\ (pc'[p] # pc[p] => disk' = disk)
      /\ (provisioned' >= 1 => \A b \in BinarySet : BinaryFile(b).exists') ]_vars

\* C2 witness: the second invocation, made after the first one provisioned the
\* cache and ended, was a cache hit and has exec'd without any download.
C2_Witness ==
  /\ provisioned = 1
  /\ runs = 2
  /\ pc[1] = "execd"
  /\ hit[1]
  /\ downloads[1] = 0
  /\ pc[2] = "idle"

\* C3 (the claim as stated): a process gets past the directory lookup, and so
\* installs into the versioned directory, only when the archive holds exactly
\* one top-level "grit-*" directory.
C3_ExactlyOneDirInstalls ==
  \A p \in Procs :
    srcDir[p] # 0 => Cardinality(extracted_dirs(release)) = 1

\* C4: a provisioning call that fails with a download or an extraction error
\* never reached the creation of the versioned directory (line 128), and no
\* step the process takes before that line changes the versioned cache
\* directories: the failed call leaves them exactly as they were.
C4_FailureLeavesCacheUntouched ==
  [][ \A p \in Procs :
        /\ (exc'[p] \in {"DownloadError", "ExtractionError"} =>
              idx'[p] = 0 /\ pc'[p] \in {"cleanup", "error"})
        /\ (pc'[p] # pc[p] /\ idx[p] = 0 /\ pc[p] # "mkdir") => disk' = disk ]_vars

\* C4 witness: a call has failed with a download error and the versioned
\* directory, absent before, is still absent.
C4_Witness ==
  \E p \in Procs :
    /\ pc[p] = "error"
    /\ exc[p] = "DownloadError"
    /\ disk[version_dir] = EmptyDir

\* C5: a temporary directory of a process exists only between line 105 and
\* the end of the with block; none exists when the process is at the check
\* after download_binary, at exec, exec'd, or ended with an error.
C5_TempDirRemoved ==
  \A p \in Procs : temp[p] # "none" => InsideWith(p)

\* C5 witness: a call failed at the copy of a binary, after the temporary
\* directory held the extracted archive, and the directory is gone.
C5_Witness ==
  \E p \in Procs :
    /\ pc[p] = "error"
    /\ exc[p] = "CopyError"
    /\ temp[p] = "none"
    /\ disk[version_dir].exists

\* the steps download_binary and its caller can take for process p
StepOf(p) ==
  \/ CacheHit(p) \/ CacheMiss(p)
  \/ PlatformOk(p) \/ PlatformUnsupported(p)
  \/ MkTemp(p) \/ DownloadOk(p) \/ DownloadFail(p)
  \/ ExtractOk(p) \/ ExtractFail(p)
  \/ FindDir(p) \/ NoDir(p)
  \/ MkDestDir(p) \/ CopyOpen(p) \/ CopyMissing(p) \/ CopyWrite(p)
  \/ CopyStat(p) \/ Chmod(p) \/ Cleanup(p)

\* C6: nothing serialises two provisioning runs: a process at the existence
\* check or anywhere inside download_binary can always take its next step,
\* whatever the other process is doing, and a missing binary always lets it
\* enter download_binary.
C6_NoSerialisation ==
  \A p \in Procs :
    /\ (pc[p] = "exists" \/ pc[p] = "get_platform" \/ pc[p] = "mkdtemp" \/ InsideWith(p))
         => ENABLED StepOf(p)
    /\ (pc[p] = "exists" /\ ~BinaryFile(entry[p]).exists) => ENABLED CacheMiss(p)

\* C6 witness: both processes missed the cache, each made its own download and
\* each ran the install to the end.
C6_Witness ==
  /\ \A p \in Procs :
       /\ pc[p] = "recheck"
       /\ ~hit[p]
       /\ downloads[p] = 1
       /\ out[p] = << "Downloading", "Successfully installed" >>
  /\ provisioned = 2

\* C7: the existence check looks at the presence of the file alone: whenever
\* a process is at the check and the file is there, be it half written or
\* without its execute bits, the cache-hit return is open to it.
C7_HitOnPresenceAlone ==
  \A p \in Procs :
    (pc[p] = "exists" /\ BinaryFile(entry[p]).exists) => ENABLED CacheHit(p)

\* C7 witness: p hit the cache and stands before exec of a file that q is
\* still copying: its bytes are not all written or its execute bits not set.
C7_Witness ==
  \E p, q \in Procs :
    /\ p # q
    /\ system # "Windows"
    /\ hit[p]
    /\ pc[p] = "execv"
    /\ pc[q] \in {"copyfile_write", "copystat", "chmod"}
    /\ Binaries[idx[q]] = entry[p]
    /\ (BinaryFile(entry[p]).content = "partial" \/ ~BinaryFile(entry[p]).x)

C9_NoRetry ==
  \A p \in Procs :
    /\ downloads[p] <= 1
    /\ (exc[p] \in {"DownloadError", "ExtractionError"} =>
          pc[p] \in {"cleanup", "error"} /\ downloads[p] = 1)

\* C9 witness: an invocation ended with an extraction error after its one
\* download.
C9_Witness ==
  \E p \in Procs :
    /\ pc[p] = "error"
    /\ exc[p] = "ExtractionError"
    /\ downloads[p] = 1
    /\ ~release.wellformed

\* C10: with a single launcher process, a process at exec either hit the cache
\* and did no provisioning step at all, or ran the whole pipeline exactly
\* once: one download, every binary copied and made executable, the temporary
\* directory removed, both status lines printed.  Either way the file it
\* execs is completely installed.
C10_ExecAfterFullPipeline ==
  \A p \in Procs :
    pc[p] \in {"execv", "execd"} =>
      /\ FullyInstalled(entry[p])
      /\ temp[p] = "none"
      /\ exc[p] = "none"
      /\ IF hit[p]
         THEN downloads[p] = 0 /\ srcDir[p] = 0 /\ idx[p] = 0 /\ out[p] = << >>
         ELSE /\ downloads[p] = 1
              /\ srcDir[p] # 0
              /\ idx[p] = Len(Binaries)
              /\ out[p] = << "Downloading", "Successfully installed" >>
              /\ \A b \in BinarySet : FullyInstalled(b)

\* C10 witness: the cache was empty, the pipeline ran and the binary was
\* exec'd.
C10_Witness ==
  /\ pc[1] = "execd"
  /\ ~hit[1]
  /\ runs = 1
  /\ provisioned = 1

\* C10 witness of the other case is the state C2_Witness describes.

\* C11: get_binary_path hands a path to exec only after an existence check of
\* that path has succeeded: the check after download_binary goes on to exec
\* when the file is there and ends with the provisioning error ("Binary not
\* found after download") when it is not; exec is entered from a successful
\* check only, and the path given to os.execv is the one get_binary_path
\* computed.
C11_ExecOnlyCheckedPath ==
  [][ \A p \in Procs :
        /\ (pc[p] = "recheck" /\ pc'[p] # pc[p]) =>
             IF BinaryFile(entry[p]).exists
             THEN pc'[p] = "execv" /\ exc'[p] = "none"
             ELSE pc'[p] = "error" /\ exc'[p] = "ProvisionError"
        /\ (pc'[p] = "execv" /\ pc[p] # "execv") =>
             (pc[p] \in {"exists", "recheck"} /\ BinaryFile(entry[p]).exists)
        /\ (exc'[p] = "ProvisionError" => execArgs'[p] = << >>)
        /\ (execArgs'[p] # << >> =>
              /\ execArgs'[p][1] = binary_path'[p]
              /\ binary_path'[p] = BinaryPath(entry'[p])) ]_vars

\* C11 witness: download_binary returned, the requested binary was gone at the
\* second check, and the invocation ended with the provisioning error without
\* calling os.execv.
C11_Witness ==
  \E p \in Procs :
    /\ pc[p] = "error"
    /\ exc[p] = "ProvisionError"
    /\ execArgs[p] = << >>
    /\ downloads[p] = 1
    /\ ~BinaryFile(entry[p]).exists

\* the triples the releases are published for, by OS and lower-cased architecture
DocumentedTriple(sys, arch) ==
  CASE sys = "Darwin" -> "universal-apple-darwin"
    [] sys = "Linux" /\ arch \in {"x86_64", "amd64"} -> "x86_64-unknown-linux-gnu"
    [] sys = "Linux" /\ arch \in {"aarch64", "arm64"} -> "aarch64-unknown-linux-gnu"
    [] sys = "Windows" /\ arch \in {"x86_64", "amd64"} -> "x86_64-pc-windows-msvc"
    [] sys = "Windows" /\ arch \in {"aarch64", "arm64"} -> "aarch64-pc-windows-msvc"

SupportedHost ==
  /\ system \in {"Darwin", "Linux", "Windows"}
  /\ Lower(machine) \in {"x86_64", "amd64", "aarch64", "arm64"}

\* p has called get_platform in this invocation
PlatformResolved(p) ==
  pc[p] \in {"mkdtemp", "urlretrieve", "extractall", "iterdir", "mkdir", "copyfile_open",
             "copyfile_write", "copystat", "chmod", "cleanup", "recheck"}
    \/ exc[p] = "UnsupportedPlatform"

\* C12: on a host whose OS is Darwin, Linux or Windows and whose lower-cased
\* architecture is x86_64, amd64, aarch64 or arm64, get_platform returns the
\* one documented triple and never raises; on every other host it raises the
\* unsupported-platform error and returns no triple.
C12_PlatformTable ==
  \A p \in Procs :
    IF SupportedHost
    THEN /\ exc[p] # "UnsupportedPlatform"
         /\ plat[p] \in {"none", DocumentedTriple(system, Lower(machine))}
         /\ (PlatformResolved(p) => plat[p] = DocumentedTriple(system, Lower(machine)))
    ELSE /\ plat[p] = "none"
         /\ (PlatformResolved(p) => exc[p] = "UnsupportedPlatform" /\ pc[p] = "error")

\* C12 witness: a Windows host reporting AMD64 got x86_64-pc-windows-msvc.
C12_Witness ==
  /\ system = "Windows"
  /\ machine = "AMD64"
  /\ pc[1] = "mkdtemp"
  /\ plat[1] = "x86_64-pc-windows-msvc"

\* C13 (the claim as stated): on Darwin get_platform yields
\* "universal-apple-darwin" whatever the CPU architecture.
C13_DarwinAlwaysUniversal ==
  \A p \in Procs :
    (system = "Darwin" /\ PlatformResolved(p)) => plat[p] = "universal-apple-darwin"

\* C13 (amended): on Darwin get_platform yields "universal-apple-darwin" for
\* every supported architecture (x86_64, amd64, aarch64, arm64 after
\* lower-casing), the same triple for all of them and never
\* "<arch>-apple-darwin"; for any other architecture it raises the
\* unsupported-platform error.
C13_DarwinUniversalIfSupported ==
  \A p \in Procs :
    system = "Darwin" =>
      /\ plat[p] \in {"none", "universal-apple-darwin"}
      /\ PlatformResolved(p) =>
           IF Lower(machine) \in {"x86_64", "amd64", "aarch64", "arm64"}
           THEN plat[p] = "universal-apple-darwin"
           ELSE plat[p] = "none" /\ exc[p] = "UnsupportedPlatform"

\* C13 witness: a Darwin host reporting arm64 got the universal triple.
C13_Witness ==
  /\ system = "Darwin"
  /\ machine = "arm64"
  /\ PlatformResolved(1)
  /\ plat[1] = "universal-apple-darwin"

\* C14: whatever the command line and whichever entry point, the list handed
\* to os.execv is the path of the resolved binary followed by every argument
\* after the program name, unchanged and in the same order, and nothing else;
\* a process that has exec'd has handed over such a list.
C14_ArgsForwarded ==
  \A p \in Procs :
    /\ pc[p] = "execd" => execArgs[p] # << >>
    /\ execArgs[p] # << >> =>
         /\ Len(execArgs[p]) = Len(argv[p])
         /\ execArgs[p][1] = BinaryPath(entry[p])
         /\ \A i \in 2..Len(argv[p]) : execArgs[p][i] = argv[p][i]

\* C14 witness: the launcher was started as ["grit", "status"] on a populated
\* cache of a Linux host and exec'd the cached binary with ["status"].
C14_Witness ==
  /\ system = "Linux"
  /\ pc[1] = "execd"
  /\ hit[1]
  /\ argv[1] = << "grit", "status" >>
  /\ execArgs[1] = << "$XDG_CACHE_HOME/grit-cli/0.1.0/grit", "status" >>

\* C15: no step of any launcher process changes the directory of another
\* version, and no step removes anything under the cache base: a directory or
\* a file that exists keeps existing.  What the launcher writes in the cache
\* is the base directory and the directory of its own version.
C15_VersionIsolation ==
  [][ /\ \A v \in Versions \ {__version__} : disk'[v] = disk[v]
      /\ \A v \in Versions :
           /\ disk[v].exists => disk'[v].exists
           /\ \A f \in FileNames : disk[v].files[f].exists => disk'[v].files[f].exists
      /\ cacheDir => cacheDir' ]_vars

\* C15 witness: this version has been installed next to the populated
\* directory of an earlier version.
C15_Witness ==
  /\ provisioned >= 1
  /\ \A b \in BinarySet : FullyInstalled(b)
  /\ disk[OtherVersion] = FullDir(system)

C17_UnsupportedFailsEarly ==
  [][ /\ \A p \in Procs :
           /\ exc'[p] = "UnsupportedPlatform" =>
                /\ pc'[p] = "error"
                /\ ~hit'[p]
                /\ temp'[p] = "none"
                /\ downloads'[p] = 0
                /\ idx'[p] = 0
                /\ out'[p] = << >>
           /\ (pc[p] = "get_platform" /\ pc'[p] # pc[p] /\ ~SupportedHost) =>
                (exc'[p] = "UnsupportedPlatform" /\ temp' = temp)
           /\ hit'[p] => (plat'[p] = "none" /\ exc'[p] # "UnsupportedPlatform")
      /\ ~SupportedHost => disk' = disk ]_vars

\* C17 witness: a miss on an unsupported host has ended with the error and
\* the versioned directory does not exist.
C17_Witness ==
  \E p \in Procs :
    /\ ~SupportedHost
    /\ pc[p] = "error"
    /\ exc[p] = "UnsupportedPlatform"
    /\ temp[p] = "none"
    /\ ~disk[version_dir].exists

\* C17, the cache-hit case: on an unsupported host with a populated cache the
\* launcher has exec'd the cached binary.
C17_HitOnUnsupportedHost ==
  \E p \in Procs : ~SupportedHost /\ hit[p] /\ pc[p] = "execd"

\* C18: in every versioned directory, whenever the daemon binary exists the
\* primary binary exists too (the install order is grit, then grit-daemon,
\* and the launcher deletes neither).
C18_DaemonImpliesPrimary ==
  \A v \in Versions :
    disk[v].files[get_binary_name("grit-daemon")].exists =>
      disk[v].files[get_binary_name("grit")].exists

\* C18 witness: the launcher itself has installed the daemon binary into a
\* directory that started empty, next to the primary binary.
C18_Witness ==
  /\ provisioned > 0
  /\ BinaryFile("grit-daemon").exists
  /\ BinaryFile("grit").exists

\* C18, the asymmetry: the primary binary is there while the daemon is not.
C18_PrimaryWithoutDaemon ==
  /\ BinaryFile("grit").exists
  /\ ~BinaryFile("grit-daemon").exists

\* the directory picked at line 125 by p holds "grit" but not "grit-daemon"
PrimaryOnlySource(p) ==
  /\ srcDir[p] # 0
  /\ get_binary_name("grit") \in release.dirs[srcDir[p]]
  /\ get_binary_name("grit-daemon") \notin release.dirs[srcDir[p]]

\* C19: with a single launcher process, when the extracted directory holds
\* "grit" but not "grit-daemon", the copy loop fails in its second round and
\* nowhere else: by then the versioned directory exists and "grit" is
\* completely installed (executable on non-Windows hosts), "grit-daemon" is
\* absent, the success line is not printed and download_binary does not
\* return.  An invocation of the primary entry point that finds the cache in
\* this state is a hit: it goes to exec and downloads nothing.
C19_PartialInstall ==
  [][ \A p \in Procs :
        /\ (PrimaryOnlySource(p)' /\ pc'[p] \in {"cleanup", "error"}) =>
             /\ exc'[p] = "CopyError"
             /\ idx'[p] = 2
             /\ disk'[version_dir].exists
             /\ FullyInstalled("grit")'
             /\ ~BinaryFile("grit-daemon").exists'
             /\ out'[p] = << "Downloading" >>
             /\ provisioned' = 0
        /\ PrimaryOnlySource(p)' => pc'[p] \notin {"recheck", "execv", "execd"}
        /\ ( /\ pc[p] = "exists" /\ pc'[p] # pc[p]
             /\ entry[p] = "grit"
             /\ FullyInstalled("grit") /\ ~BinaryFile("grit-daemon").exists ) =>
             (pc'[p] = "execv" /\ hit'[p] /\ downloads'[p] = 0 /\ temp'[p] = "none")
        /\ (hit[p] /\ pc[p] = "execv" /\ pc'[p] # pc[p]) =>
             (pc'[p] = "execd" /\ downloads'[p] = 0 /\ disk' = disk) ]_vars

\* C19 witness: the run has failed at the second copy and left "grit"
\* installed without "grit-daemon".
C19_Witness ==
  \E p \in Procs :
    /\ PrimaryOnlySource(p)
    /\ pc[p] = "error"
    /\ exc[p] = "CopyError"
    /\ idx[p] = 2
    /\ FullyInstalled("grit")
    /\ ~BinaryFile("grit-daemon").exists

\* C19, the later invocation: after a failed first run, the second run of the
\* primary entry point has exec'd from a cache holding "grit" alone, without
\* a download.
C19_LaterHit ==
  \E p \in Procs :
    /\ runs = 2
    /\ provisioned = 0
    /\ entry[p] = "grit"
    /\ hit[p]
    /\ pc[p] = "execd"
    /\ downloads[p] = 0
    /\ ~BinaryFile("grit-daemon").exists

\* the file name the loop of line 131 handles in round i
RoundName(i) == get_binary_name(IF i = 1 THEN "grit" ELSE "grit-daemon")

C20_DaemonRunInstalledBoth ==
  \E p \in Procs :
    /\ entry[p] = "grit-daemon"
    /\ runs = 2
    /\ pc[p] = "recheck"
    /\ FullyInstalled("grit")
    /\ FullyInstalled("grit-daemon")

====
